---- MODULE Spec2Model ----
(***************************************************************************)
(* A model of bufferkvs: a fixed-size hash-bucket table mapping C-string   *)
(* keys to byte buffers.  Every bucket slot holds a pointer to a bufferqueue*)
(* (the per-bucket chain) or NULL.  The operations are modelled as          *)
(* operators that map the table state and the call's inputs to the new      *)
(* table state and the result code; one action per API function applies     *)
(* them.                                                                    *)
(***************************************************************************)
EXTENDS Integers, Sequences, FiniteSets, TLC

VARIABLES
    conf,        \* ctx->conf: hash_cb, bucket_num, pair_num_max
    buckets,     \* ctx->buckets[]: one slot per bucket
    pair_num,    \* ctx->cache.pair_num
    search_ctx,  \* the file-scope static search_ctx
    ctx_live,    \* TRUE between a successful bkvs_new and bkvs_del
    alive,       \* FALSE once undefined behaviour has ended the process
    op,          \* the API function that returned last
    arg_key,     \* its key argument
    arg_val,     \* its value argument (bkvs_put)
    ret,         \* its result code
    arg_cb,      \* its visitor argument (bkvs_foreach)
    out,         \* what it wrote through its output pointer
    visits,      \* the visitor invocations it made (bkvs_foreach)
    unowned,     \* the key and value buffers it allocated and left, still
                 \* allocated, owned by no stored pair
    arg_conf,    \* the configuration argument of the last bkvs_new
    other        \* the table of a second caller

vars == <<conf, buckets, pair_num, search_ctx, ctx_live, alive,
          op, arg_key, arg_val, arg_cb, ret, out, visits, unowned, arg_conf,
          other>>

---------------------------------------------------------------------------
(* Bounds of the model.                                                    *)

\* a bkvs_put of a key that is not stored is explored while cache.pair_num is
\* below this (and bkvs_drop while cache.pair_num has not wrapped below 0)
MaxPairNum == 2
\* the number of records a wild chain pointer may appear to hold
MaxGarbage == 1

---------------------------------------------------------------------------
(* Program constants.                                                      *)

\* bkvs_u32 values are kept as two 16-bit halves, [hi, lo], so that the
\* arithmetic wraps at 2^32 as the C arithmetic does
U16 == 65536

BKVS_OK == 0
BKVS_ERR == -1
BKVS_ERR_NO_MEM == -2
BKVS_ERR_NO_KEY == -3
BKVS_ERR_ITER_STOP == -8

BKVS_DEF_BUCKET_NUM == 128
BKVS_DEF_PAIR_NUM_MAX == 1024

\* result codes of the chain (bufferqueue), by name
BQUE_OK == "BQUE_OK"
BQUE_ERR == "BQUE_ERR"
BQUE_ERR_NO_MEM == "BQUE_ERR_NO_MEM"
BQUE_ERR_ITER_STOP == "BQUE_ERR_ITER_STOP"

---------------------------------------------------------------------------
(* Inputs: keys are C strings (bytes ending in 0), values are byte buffers. *)

Keys == {<<97, 0>>, <<97, 98, 0>>, <<98, 0>>}
Values == {<<1>>, <<2, 3>>}
NoKey == <<>>
NoVal == <<>>

\* the configuration the caller hands to bkvs_new
\* (two buckets: the keys <<97, 0>> and <<97, 98, 0>> collide under djb2)
ConfArg == [is_null |-> FALSE, hash_cb |-> "NULL", bucket_num |-> 2,
            pair_num_max |-> 2]

---------------------------------------------------------------------------
(* C library helpers.                                                      *)

\* the number of bytes before the first 0
RECURSIVE strlen_from(_, _)
strlen_from(str, n) == IF str[n + 1] = 0 THEN n ELSE strlen_from(str, n + 1)
\* the lengths of the model's keys, computed once
StrlenOfKey == [key \in Keys |-> strlen_from(key, 0)]
strlen(str) == IF str \in Keys THEN StrlenOfKey[str] ELSE strlen_from(str, 0)

memcpy(src, n) == SubSeq(src, 1, n)

memcmp(a, b, n) == IF SubSeq(a, 1, n) = SubSeq(b, 1, n) THEN 0 ELSE 1

---------------------------------------------------------------------------
(* bkvs_u32 arithmetic.                                                    *)

u32(n) == [hi |-> (n \div U16) % U16, lo |-> n % U16]
u32_add(a, b) ==
    LET lo == a.lo + b.lo
    IN [hi |-> (a.hi + b.hi + (lo \div U16)) % U16, lo |-> lo % U16]
u32_sub(a, b) ==
    LET lo == a.lo - b.lo
    IN [hi |-> (a.hi - b.hi - (IF lo < 0 THEN 1 ELSE 0)) % U16, lo |-> lo % U16]
\* a << k, for k < 16
u32_shl(a, k) ==
    LET lo == a.lo * (2 ^ k)
    IN [hi |-> (a.hi * (2 ^ k) + (lo \div U16)) % U16, lo |-> lo % U16]
u32_shl16(a) == [hi |-> a.lo, lo |-> 0]
\* a % n, for a small n
u32_mod(a, n) == ((a.hi % n) * (U16 % n) + (a.lo % n)) % n

---------------------------------------------------------------------------
(* Hash functions.                                                         *)

RECURSIVE djb2_loop(_, _, _)
djb2_loop(str, i, hash) ==
    IF str[i] = 0 THEN hash
    ELSE djb2_loop(str, i + 1,
             u32_add(u32_add(u32_shl(hash, 5), hash), u32(str[i])))

\* a djb2 that starts from 0
bkvs_hash_cb_djb2_zero(str) == djb2_loop(str, 1, u32(0))

bkvs_hash_cb_djb2(str) == djb2_loop(str, 1, u32(5381))

RECURSIVE sdbm_loop(_, _, _)
sdbm_loop(str, i, hash) ==
    IF str[i] = 0 THEN hash
    ELSE sdbm_loop(str, i + 1,
             u32_sub(u32_add(u32_add(u32(str[i]), u32_shl(hash, 6)),
                             u32_shl16(hash)), hash))

bkvs_hash_cb_sdbm(str) == sdbm_loop(str, 1, u32(0))

\* the hashes of the model's keys, computed once
HashOfKey == [name \in {"djb2", "sdbm"}, key \in Keys |->
                 IF name = "sdbm" THEN bkvs_hash_cb_sdbm(key)
                 ELSE bkvs_hash_cb_djb2(key)]

\* a call through the function pointer conf.hash_cb
hash_cb(name, key) ==
    IF key \in Keys THEN HashOfKey[name, key]
    ELSE IF name = "sdbm" THEN bkvs_hash_cb_sdbm(key) ELSE bkvs_hash_cb_djb2(key)

---------------------------------------------------------------------------
(* Bucket slots.  A slot is NULL, a chain (a sequence of pair records), or  *)
(* "wild": a non-NULL pointer that is no chain, which is what a slot that   *)
(* was never written can hold.                                              *)

NullBucket == [kind |-> "null", items |-> <<>>]
WildBucket == [kind |-> "wild", items |-> <<>>]
Chain(items) == [kind |-> "que", items |-> items]

\* a pointer to a record inside a chain, NULL, or a pointer into garbage
NullPtr == [kind |-> "null", b |-> 0, i |-> 0]
GarbagePtr == [kind |-> "garbage", b |-> 0, i |-> 0]
RecPtr(b, i) == [kind |-> "rec", b |-> b, i |-> i]

\* what a call on a wild chain pointer may do
WildSearch == {"miss", "hit", "crash"}
WildMutate == {"ok", "err", "nomem", "crash"}
\* where an allocation fails during a call, if anywhere
AllocFail == {"none", "que", "key", "value", "enqueue"}

---------------------------------------------------------------------------
(* The chain collaborator (bufferqueue), from its interface.               *)

bque_new(fail) ==
    IF fail = "que" THEN [res |-> BQUE_ERR_NO_MEM, que |-> NullBucket]
    ELSE [res |-> BQUE_OK, que |-> Chain(<<>>)]

bque_enqueue(que, rec, fail, ubm) ==
    IF que.kind = "wild"
    THEN [res |-> CASE ubm = "ok" -> BQUE_OK
                    [] ubm = "nomem" -> BQUE_ERR_NO_MEM
                    [] OTHER -> BQUE_ERR,
          que |-> que, crash |-> ubm = "crash"]
    ELSE IF fail = "enqueue"
    THEN [res |-> BQUE_ERR_NO_MEM, que |-> que, crash |-> FALSE]
    ELSE [res |-> BQUE_OK, que |-> Chain(Append(que.items, rec)), crash |-> FALSE]

\* remove the record at 0-based index idx
bque_drop(que, idx, ubm) ==
    IF que.kind = "wild"
    THEN [res |-> IF ubm = "ok" THEN BQUE_OK ELSE BQUE_ERR,
          que |-> que, crash |-> ubm = "crash"]
    ELSE IF idx >= Len(que.items)
    THEN [res |-> BQUE_ERR, que |-> que, crash |-> FALSE]
    ELSE [res |-> BQUE_OK,
          que |-> Chain(SubSeq(que.items, 1, idx)
                        \o SubSeq(que.items, idx + 2, Len(que.items))),
          crash |-> FALSE]

---------------------------------------------------------------------------
(* Lookup.                                                                 *)

ZeroSearchCtx == [key |-> NoKey, key_size |-> 0, bucket_idx |-> 0,
                  pair_idx |-> 0, buff |-> NullPtr]

\* the callback bque_foreach runs on each record of the scanned chain
search_key_cb(pair, ptr, idx, sctx) ==
    IF pair.key_size = sctx.key_size
       /\ memcmp(pair.key, sctx.key, sctx.key_size) = 0
    THEN [res |-> BQUE_ERR_ITER_STOP,
          sctx |-> [sctx EXCEPT !.pair_idx = idx, !.buff = ptr]]
    ELSE [res |-> BQUE_OK, sctx |-> sctx]

RECURSIVE search_iter(_, _, _, _)
search_iter(items, b, j, sctx) ==
    IF j >= Len(items) THEN [res |-> BQUE_OK, sctx |-> sctx]
    ELSE LET r == search_key_cb(items[j + 1], RecPtr(b, j), j, sctx)
         IN IF r.res = BQUE_ERR_ITER_STOP THEN r
            ELSE search_iter(items, b, j + 1, r.sctx)

\* bque_foreach(que, search_key_cb, BQUE_ITER_FORWARD)
bque_foreach_search(que, b, sctx, ubs) ==
    IF que.kind = "wild"
    THEN CASE ubs = "hit" ->
                [res |-> BQUE_ERR_ITER_STOP,
                 sctx |-> [sctx EXCEPT !.pair_idx = 0, !.buff = GarbagePtr],
                 crash |-> FALSE]
           [] ubs = "crash" -> [res |-> BQUE_ERR, sctx |-> sctx, crash |-> TRUE]
           [] OTHER -> [res |-> BQUE_OK, sctx |-> sctx, crash |-> FALSE]
    ELSE LET r == search_iter(que.items, b, 0, sctx)
         IN [res |-> r.res, sctx |-> r.sctx, crash |-> FALSE]

search_key(cf, bs, sctx, key, ubs) ==
    LET bucket_idx == u32_mod(hash_cb(cf.hash_cb, key), cf.bucket_num)
    IN IF bs[bucket_idx].kind = "null"
       THEN [res |-> BKVS_ERR_NO_KEY, sctx |-> sctx, crash |-> FALSE]
       ELSE LET s1 == [sctx EXCEPT !.key = key, !.key_size = strlen(key) + 1]
                f == bque_foreach_search(bs[bucket_idx], bucket_idx, s1, ubs)
            IN IF f.crash
               THEN [res |-> BKVS_ERR, sctx |-> f.sctx, crash |-> TRUE]
               ELSE IF f.res # BQUE_ERR_ITER_STOP
               THEN [res |-> BKVS_ERR_NO_KEY, sctx |-> f.sctx, crash |-> FALSE]
               ELSE [res |-> BKVS_OK,
                     sctx |-> [f.sctx EXCEPT !.bucket_idx = bucket_idx],
                     crash |-> FALSE]

---------------------------------------------------------------------------
(* Construction.                                                           *)

\* the contents the allocated bucket array may have before it is written
GarbageBuckets(n) == [0..(n - 1) -> {NullBucket, WildBucket}]

\* garbage is what malloc returned in the bucket array: the memset covers
\* sizeof(bkvs_ctx), which does not include the flexible array member
\* a bkvs_new whose default hash function is sdbm
bkvs_new_sdbm_default(carg, memfail, garbage) ==
    LET hcb == IF carg.is_null THEN "sdbm"
               ELSE IF carg.hash_cb # "NULL" THEN carg.hash_cb ELSE "sdbm"
        bucket_num == IF carg.is_null THEN BKVS_DEF_BUCKET_NUM
                      ELSE IF carg.bucket_num # 0 THEN carg.bucket_num
                      ELSE BKVS_DEF_BUCKET_NUM
        pair_num_max == IF carg.is_null THEN BKVS_DEF_PAIR_NUM_MAX
                        ELSE carg.pair_num_max
    IN [res |-> IF memfail THEN BKVS_ERR_NO_MEM ELSE BKVS_OK,
        conf |-> [hash_cb |-> hcb, bucket_num |-> bucket_num,
                  pair_num_max |-> pair_num_max],
        buckets |-> garbage,
        pair_num |-> u32(0)]

bkvs_new(carg, memfail, garbage) ==
    LET hcb == IF carg.is_null THEN "djb2"
               ELSE IF carg.hash_cb # "NULL" THEN carg.hash_cb ELSE "djb2"
        bucket_num == IF carg.is_null THEN BKVS_DEF_BUCKET_NUM
                      ELSE IF carg.bucket_num # 0 THEN carg.bucket_num
                      ELSE BKVS_DEF_BUCKET_NUM
        pair_num_max == IF carg.is_null THEN BKVS_DEF_PAIR_NUM_MAX
                        ELSE carg.pair_num_max
    IN [res |-> IF memfail THEN BKVS_ERR_NO_MEM ELSE BKVS_OK,
        conf |-> [hash_cb |-> hcb, bucket_num |-> bucket_num,
                  pair_num_max |-> pair_num_max],
        buckets |-> garbage,
        pair_num |-> u32(0)]

---------------------------------------------------------------------------
(* Put.                                                                    *)

\* what an operation hands back: result code, new table state, crash flag
Result(res, bs, pn, sc) ==
    [res |-> res, buckets |-> bs, pair_num |-> pn, sctx |-> sc, crash |-> FALSE,
     unowned |-> 0]
Crashed(bs, pn, sc) ==
    [res |-> BKVS_ERR, buckets |-> bs, pair_num |-> pn, sctx |-> sc, crash |-> TRUE,
     unowned |-> 0]
\* the call returns r with the pair's key buffer and value buffer still
\* allocated and in no chain
PairUnowned(r) == [r EXCEPT !.unowned = 2]

create_pair_que(fail) ==
    LET q == bque_new(fail)
    IN IF q.res # BQUE_OK
       THEN [res |-> IF q.res = BQUE_ERR_NO_MEM THEN BKVS_ERR_NO_MEM ELSE BKVS_ERR,
             que |-> NullBucket]
       ELSE [res |-> BKVS_OK, que |-> q.que]

create_pair(key, buff, size, fail) ==
    LET key_size == strlen(key) + 1
    IN IF fail \in {"key", "value"}
       THEN [res |-> BKVS_ERR_NO_MEM,
             pair |-> [key_size |-> 0, value_size |-> 0, key |-> <<>>, value |-> <<>>]]
       ELSE [res |-> BKVS_OK,
             pair |-> [key_size |-> key_size, value_size |-> size,
                       key |-> memcpy(key, key_size), value |-> memcpy(buff, size)]]

\* the record a chain pointer refers to
Deref(bs, ptr) == bs[ptr.b].items[ptr.i + 1]

\* an update that records the new size and leaves the stored bytes alone
update_value_keep(pair, buff, size) == [pair EXCEPT !.value_size = size]

\* the found path's stores into the pair: the old value is freed, the new
\* buffer and its size are stored
update_value(pair, buff, size) ==
    [pair EXCEPT !.value = memcpy(buff, size), !.value_size = size]

\* a put whose found path frees the old value before it allocates the new one
bkvs_put_free_first(cf, bs, pn, sc, key, buff, size, fail, ubs, ubm) ==
    LET s == search_key(cf, bs, sc, key, ubs)
        bucket_idx == u32_mod(hash_cb(cf.hash_cb, key), cf.bucket_num)
    IN IF s.crash THEN Crashed(bs, pn, s.sctx)
       ELSE IF s.res = BKVS_ERR_NO_KEY
       THEN LET q == IF bs[bucket_idx].kind = "null" THEN create_pair_que(fail)
                     ELSE [res |-> BKVS_OK, que |-> bs[bucket_idx]]
                bs1 == [bs EXCEPT ![bucket_idx] = q.que]
                p == create_pair(key, buff, size, fail)
                e == bque_enqueue(bs1[bucket_idx], p.pair, fail, ubm)
            IN IF q.res # BKVS_OK THEN Result(q.res, bs, pn, s.sctx)
               ELSE IF p.res # BKVS_OK THEN Result(p.res, bs1, pn, s.sctx)
               ELSE IF e.crash THEN Crashed(bs1, pn, s.sctx)
               ELSE IF e.res # BQUE_OK
               THEN PairUnowned(
                       Result(IF e.res = BQUE_ERR_NO_MEM THEN BKVS_ERR_NO_MEM
                              ELSE BKVS_ERR,
                              bs1, pn, s.sctx))
               ELSE Result(BKVS_OK, [bs1 EXCEPT ![bucket_idx] = e.que],
                           u32_add(pn, u32(1)), s.sctx)
       ELSE IF s.res = BKVS_OK
       THEN IF fail = "value"
            THEN IF s.sctx.buff.kind = "garbage"
                 THEN Result(BKVS_ERR_NO_MEM, bs, pn, s.sctx)
                 ELSE LET ptr == s.sctx.buff
                          gone == [Deref(bs, ptr) EXCEPT !.value = <<>>,
                                                         !.value_size = 0]
                      IN Result(BKVS_ERR_NO_MEM,
                                [bs EXCEPT ![ptr.b] =
                                    Chain([bs[ptr.b].items EXCEPT ![ptr.i + 1] = gone])],
                                pn, s.sctx)
            ELSE IF s.sctx.buff.kind = "garbage"
            THEN \* free() and stores through a garbage record
                 IF ubm = "crash" THEN Crashed(bs, pn, s.sctx)
                 ELSE Result(BKVS_OK, bs, pn, s.sctx)
            ELSE LET ptr == s.sctx.buff
                     upd == update_value(Deref(bs, ptr), buff, size)
                 IN Result(BKVS_OK,
                           [bs EXCEPT ![ptr.b] =
                               Chain([bs[ptr.b].items EXCEPT ![ptr.i + 1] = upd])],
                           pn, s.sctx)
       ELSE Result(s.res, bs, pn, s.sctx)


bkvs_put(cf, bs, pn, sc, key, buff, size, fail, ubs, ubm) ==
    LET s == search_key(cf, bs, sc, key, ubs)
        bucket_idx == u32_mod(hash_cb(cf.hash_cb, key), cf.bucket_num)
    IN IF s.crash THEN Crashed(bs, pn, s.sctx)
       ELSE IF s.res = BKVS_ERR_NO_KEY
       THEN LET q == IF bs[bucket_idx].kind = "null" THEN create_pair_que(fail)
                     ELSE [res |-> BKVS_OK, que |-> bs[bucket_idx]]
                bs1 == [bs EXCEPT ![bucket_idx] = q.que]
                p == create_pair(key, buff, size, fail)
                e == bque_enqueue(bs1[bucket_idx], p.pair, fail, ubm)
            IN IF q.res # BKVS_OK THEN Result(q.res, bs, pn, s.sctx)
               ELSE IF p.res # BKVS_OK THEN Result(p.res, bs1, pn, s.sctx)
               ELSE IF e.crash THEN Crashed(bs1, pn, s.sctx)
               ELSE IF e.res # BQUE_OK
               THEN PairUnowned(
                       Result(IF e.res = BQUE_ERR_NO_MEM THEN BKVS_ERR_NO_MEM
                              ELSE BKVS_ERR,
                              bs1, pn, s.sctx))
               ELSE Result(BKVS_OK, [bs1 EXCEPT ![bucket_idx] = e.que],
                           u32_add(pn, u32(1)), s.sctx)
       ELSE IF s.res = BKVS_OK
       THEN IF fail = "value" THEN Result(BKVS_ERR_NO_MEM, bs, pn, s.sctx)
            ELSE IF s.sctx.buff.kind = "garbage"
            THEN \* free() and stores through a garbage record
                 IF ubm = "crash" THEN Crashed(bs, pn, s.sctx)
                 ELSE Result(BKVS_OK, bs, pn, s.sctx)
            ELSE LET ptr == s.sctx.buff
                     upd == update_value(Deref(bs, ptr), buff, size)
                 IN Result(BKVS_OK,
                           [bs EXCEPT ![ptr.b] =
                               Chain([bs[ptr.b].items EXCEPT ![ptr.i + 1] = upd])],
                           pn, s.sctx)
       ELSE Result(s.res, bs, pn, s.sctx)

---------------------------------------------------------------------------
(* Drop, empty, has, get, status.                                          *)

bkvs_drop(cf, bs, pn, sc, key, ubs, ubm) ==
    LET s == search_key(cf, bs, sc, key, ubs)
    IN IF s.crash THEN Crashed(bs, pn, s.sctx)
       ELSE IF s.res # BKVS_OK THEN Result(s.res, bs, pn, s.sctx)
       ELSE \* free(pair->key); free(pair->value); then the record is removed
            LET b == s.sctx.bucket_idx
                d == bque_drop(bs[b], s.sctx.pair_idx, ubm)
            IN IF d.crash THEN Crashed(bs, pn, s.sctx)
               ELSE IF d.res # BQUE_OK THEN Result(BKVS_ERR, bs, pn, s.sctx)
               ELSE Result(BKVS_OK, [bs EXCEPT ![b] = d.que],
                           u32_sub(pn, u32(1)), s.sctx)

\* every chain is walked with empty_cb and deleted, every slot is zeroed;
\* cache.pair_num is not written
bkvs_empty(cf, bs, pn, sc, ubm) ==
    IF ubm = "crash" /\ \E i \in 0..(cf.bucket_num - 1) : bs[i].kind = "wild"
    THEN Crashed(bs, pn, sc)
    ELSE Result(BKVS_OK, [i \in 0..(cf.bucket_num - 1) |-> NullBucket], pn, sc)

bkvs_has(cf, bs, pn, sc, key, ubs) ==
    LET s == search_key(cf, bs, sc, key, ubs)
    IN IF s.crash THEN Crashed(bs, pn, s.sctx) ELSE Result(s.res, bs, pn, s.sctx)

NoOut == [kind |-> "none", size |-> 0, bytes |-> <<>>]
GarbageView == [kind |-> "garbage", size |-> 0, bytes |-> <<>>]
View(pair) == [kind |-> "view", size |-> pair.value_size, bytes |-> pair.value]

\* the buff the caller gets back: a view of the pair's value
bkvs_get(cf, bs, pn, sc, key, ubs) ==
    LET s == search_key(cf, bs, sc, key, ubs)
        r == IF s.crash THEN Crashed(bs, pn, s.sctx) ELSE Result(s.res, bs, pn, s.sctx)
    IN [res |-> r.res, buckets |-> r.buckets, pair_num |-> r.pair_num,
        sctx |-> r.sctx, crash |-> r.crash, unowned |-> r.unowned,
        buff |-> IF s.crash \/ s.res # BKVS_OK THEN NoOut
                 ELSE IF s.sctx.buff.kind = "garbage" THEN GarbageView
                 ELSE View(Deref(bs, s.sctx.buff))]

bkvs_status(pn) == [res |-> BKVS_OK, stat |-> [kind |-> "stat", size |-> pn, bytes |-> <<>>]]

---------------------------------------------------------------------------
(* Foreach.                                                                *)

\* the visitor: returns BKVS_ERR_ITER_STOP on its stop_at-th invocation
\* (never when stop_at = 0) and the code other on every other one; the
\* visitors tried here return BKVS_OK until they stop
Visitors == [stop_at : 0..MaxPairNum, other : {BKVS_OK}]
NoVisitor == [stop_at |-> 0, other |-> BKVS_OK]
cb(visitor, pair_idx) ==
    IF u32(visitor.stop_at) = u32_add(pair_idx, u32(1)) THEN BKVS_ERR_ITER_STOP ELSE visitor.other

\* what bque_status and bque_item may do on a wild chain pointer
NoWildIter == [status |-> "ok", num |-> 0, item |-> "ok"]
WildIter == {[status |-> "crash", num |-> 0, item |-> "ok"],
             [status |-> "err", num |-> 0, item |-> "ok"]}
            \cup {NoWildIter}
            \cup [status : {"ok"}, num : 1..MaxGarbage, item : {"ok", "err"}]

Visit(pair, idx, num) ==
    [garbage |-> FALSE, key |-> pair.key, value |-> pair.value,
     size |-> pair.value_size, idx |-> idx, num |-> num]
GarbageVisit(idx, num) ==
    [garbage |-> TRUE, key |-> <<>>, value |-> <<>>, size |-> 0,
     idx |-> idx, num |-> num]

\* a loop that never takes the visitor's result for a stop
iter_stopped_never(res) == FALSE

\* a loop that stops on every result but BKVS_OK
iter_stopped_any_error(res) == res # BKVS_OK

\* the test on the visitor's result
iter_stopped(res) == res = BKVS_ERR_ITER_STOP

\* the two nested loops, from slot i and record j on, with pair_idx the
\* running index and vs the invocations made so far
RECURSIVE foreach_loop(_, _, _, _, _, _, _, _, _)
foreach_loop(cf, bs, pn, i, j, pair_idx, vs, visitor, ubi) ==
    IF i >= cf.bucket_num
    THEN [res |-> BKVS_OK, visits |-> vs, crash |-> FALSE]
    ELSE IF bs[i].kind = "null"
    THEN foreach_loop(cf, bs, pn, i + 1, 0, pair_idx, vs, visitor, ubi)
    ELSE IF bs[i].kind = "wild" /\ ubi.status = "crash"
    THEN [res |-> BKVS_ERR, visits |-> vs, crash |-> TRUE]
    ELSE IF bs[i].kind = "wild" /\ ubi.status = "err"
    THEN [res |-> BKVS_ERR, visits |-> vs, crash |-> FALSE]
    ELSE LET buff_num == IF bs[i].kind = "wild" THEN ubi.num ELSE Len(bs[i].items)
         IN IF j >= buff_num
            THEN foreach_loop(cf, bs, pn, i + 1, 0, pair_idx, vs, visitor, ubi)
            ELSE IF bs[i].kind = "wild" /\ ubi.item = "err"
            THEN [res |-> BKVS_ERR, visits |-> vs, crash |-> FALSE]
            ELSE LET v == IF bs[i].kind = "wild" THEN GarbageVisit(pair_idx, pn)
                          ELSE Visit(bs[i].items[j + 1], pair_idx, pn)
                     res == cb(visitor, pair_idx)
                 IN IF iter_stopped(res)
                    THEN [res |-> BKVS_ERR_ITER_STOP, visits |-> Append(vs, v),
                          crash |-> FALSE]
                    ELSE foreach_loop(cf, bs, pn, i, j + 1, u32_add(pair_idx, u32(1)),
                                      Append(vs, v), visitor, ubi)

bkvs_foreach(cf, bs, pn, sc, visitor, ubi) ==
    LET f == foreach_loop(cf, bs, pn, 0, 0, u32(0), <<>>, visitor, ubi)
    IN [res |-> f.res, buckets |-> bs, pair_num |-> pn, sctx |-> sc,
        crash |-> f.crash, unowned |-> 0, visits |-> f.visits]

---------------------------------------------------------------------------
(* The state machine.                                                      *)

\* the call returns: the table takes the operation's result and the call is
\* recorded; or undefined behaviour ends the process, and its memory with it
Return(name, key, val, visitor, r, o, vs) ==
    IF r.crash
    THEN /\ alive' = FALSE
         /\ buckets' = [i \in 0..(conf.bucket_num - 1) |-> NullBucket]
         /\ pair_num' = u32(0)
         /\ search_ctx' = ZeroSearchCtx
         /\ op' = "crash"
         /\ arg_key' = NoKey
         /\ arg_val' = NoVal
         /\ arg_cb' = NoVisitor
         /\ ret' = BKVS_ERR
         /\ out' = NoOut
         /\ visits' = <<>>
         /\ unowned' = 0
         /\ UNCHANGED <<conf, arg_conf, other>>
    ELSE /\ buckets' = r.buckets
         /\ pair_num' = r.pair_num
         /\ search_ctx' = r.sctx
         /\ op' = name
         /\ arg_key' = key
         /\ arg_val' = val
         /\ arg_cb' = visitor
         /\ ret' = r.res
         /\ out' = o
         /\ visits' = vs
         /\ unowned' = r.unowned
         /\ UNCHANGED <<conf, alive, arg_conf, other>>

\* no second caller
NoOther == [buckets |-> <<>>, pair_num |-> u32(0), freed |-> {}]

Init ==
    \E garbage \in GarbageBuckets(ConfArg.bucket_num) :
        LET n == bkvs_new(ConfArg, FALSE, garbage)
        IN /\ conf = n.conf
           /\ buckets = n.buckets
           /\ pair_num = n.pair_num
           /\ search_ctx = ZeroSearchCtx
           /\ ctx_live = TRUE
           /\ alive = TRUE
           /\ op = "new"
           /\ arg_key = NoKey
           /\ arg_val = NoVal
           /\ arg_cb = NoVisitor
           /\ ret = n.res
           /\ out = NoOut
           /\ visits = <<>>
           /\ unowned = 0
           /\ arg_conf = ConfArg
           /\ other = NoOther

Usable == alive /\ ctx_live

\* the slot a key routes to
Route(key) == u32_mod(hash_cb(conf.hash_cb, key), conf.bucket_num)
AnyWild == \E i \in 0..(conf.bucket_num - 1) : buckets[i].kind = "wild"

\* The inputs of a call beside its arguments: where an allocation fails
\* (fail) and, where the call uses a wild chain pointer, what the lookup on
\* it (ubs) and the later calls on it (ubm) do.  They are drawn only where
\* the call gets that far.
Env(fail, ubs, ubm) == [fail |-> fail, ubs |-> ubs, ubm |-> ubm]
Stored(key) ==
    \E j \in 1..Len(buckets[Route(key)].items) :
        buckets[Route(key)].items[j].key = key
PutEnvs(key) ==
    CASE buckets[Route(key)].kind = "null" ->
           {Env(f, "miss", "ok") : f \in AllocFail}
      [] buckets[Route(key)].kind = "wild" ->
           {Env("none", "crash", "ok")}
           \cup {Env(f, "miss", "ok") : f \in {"key", "value"}}
           \cup {Env("none", "miss", m) : m \in WildMutate}
           \cup {Env("value", "hit", "ok")}
           \cup {Env("none", "hit", m) : m \in {"ok", "crash"}}
      [] OTHER ->
           IF Stored(key)
           THEN {Env(f, "miss", "ok") : f \in {"none", "value"}}
           ELSE {Env(f, "miss", "ok") : f \in {"none", "key", "value", "enqueue"}}
DropEnvs(key) ==
    IF buckets[Route(key)].kind = "wild"
    THEN {Env("none", u, "ok") : u \in {"miss", "crash"}}
         \cup {Env("none", "hit", m) : m \in {"ok", "err", "crash"}}
    ELSE {Env("none", "miss", "ok")}
SearchChoices(key) ==
    IF buckets[Route(key)].kind = "wild" THEN WildSearch ELSE {"miss"}

Put ==
    /\ Usable
    /\ \E key \in Keys :
          /\ (pair_num.hi = 0 /\ pair_num.lo < MaxPairNum) \/ Stored(key)
          /\ \E buff \in Values, e \in PutEnvs(key) :
                LET r == bkvs_put(conf, buckets, pair_num, search_ctx, key, buff,
                                  Len(buff), e.fail, e.ubs, e.ubm)
                IN /\ Return("put", key, buff, NoVisitor, r, NoOut, <<>>)
                   /\ ctx_live' = ~r.crash

Drop ==
    /\ Usable
    /\ pair_num.hi = 0
    /\ \E key \in Keys :
       \E e \in DropEnvs(key) :
          LET r == bkvs_drop(conf, buckets, pair_num, search_ctx, key, e.ubs, e.ubm)
          IN /\ Return("drop", key, NoVal, NoVisitor, r, NoOut, <<>>)
             /\ ctx_live' = ~r.crash

Empty ==
    /\ Usable
    /\ \E ubm \in (IF AnyWild THEN {"ok", "crash"} ELSE {"ok"}) :
          LET r == bkvs_empty(conf, buckets, pair_num, search_ctx, ubm)
          IN /\ Return("empty", NoKey, NoVal, NoVisitor, r, NoOut, <<>>)
             /\ ctx_live' = ~r.crash

Has ==
    /\ Usable
    /\ \E key \in Keys :
       \E ubs \in SearchChoices(key) :
          LET r == bkvs_has(conf, buckets, pair_num, search_ctx, key, ubs)
          IN /\ Return("has", key, NoVal, NoVisitor, r, NoOut, <<>>)
             /\ ctx_live' = ~r.crash

Get ==
    /\ Usable
    /\ \E key \in Keys :
       \E ubs \in SearchChoices(key) :
          LET g == bkvs_get(conf, buckets, pair_num, search_ctx, key, ubs)
          IN /\ Return("get", key, NoVal, NoVisitor, g, g.buff, <<>>)
             /\ ctx_live' = ~g.crash

Status ==
    /\ Usable
    /\ LET st == bkvs_status(pair_num)
       IN Return("status", NoKey, NoVal, NoVisitor,
                 Result(st.res, buckets, pair_num, search_ctx), st.stat, <<>>)
    /\ UNCHANGED ctx_live

Foreach ==
    /\ Usable
    /\ \E visitor \in Visitors, ubi \in (IF AnyWild THEN WildIter ELSE {NoWildIter}) :
          LET f == bkvs_foreach(conf, buckets, pair_num, search_ctx, visitor, ubi)
          IN /\ Return("foreach", NoKey, NoVal, visitor, f, NoOut, f.visits)
             /\ ctx_live' = ~f.crash

\* bkvs_del: bkvs_empty, then the context is freed
Del ==
    /\ Usable
    /\ \E ubm \in (IF AnyWild THEN {"ok", "crash"} ELSE {"ok"}) :
          LET r == bkvs_empty(conf, buckets, pair_num, search_ctx, ubm)
          IN /\ Return("del", NoKey, NoVal, NoVisitor, r, NoOut, <<>>)
             /\ ctx_live' = FALSE

\* bkvs_new after a bkvs_del: a new table in whatever memory malloc returns
New ==
    /\ alive
    /\ ~ctx_live
    /\ \E memfail \in BOOLEAN, garbage \in GarbageBuckets(ConfArg.bucket_num) :
          LET n == bkvs_new(ConfArg, memfail, garbage)
          IN /\ ret' = n.res
             /\ op' = "new"
             /\ arg_key' = NoKey
             /\ arg_val' = NoVal
             /\ arg_cb' = NoVisitor
             /\ out' = NoOut
             /\ visits' = <<>>
             /\ unowned' = 0
             /\ arg_conf' = ConfArg
             /\ IF n.res = BKVS_OK
                THEN /\ conf' = n.conf
                     /\ buckets' = n.buckets
                     /\ pair_num' = n.pair_num
                     /\ ctx_live' = TRUE
                ELSE UNCHANGED <<conf, buckets, pair_num, ctx_live>>
             /\ UNCHANGED <<search_ctx, alive, other>>

Next ==
    \/ Put
    \/ Drop
    \/ Empty
    \/ Has
    \/ Get
    \/ Status
    \/ Foreach
    \/ Del
    \/ New

Spec == Init /\ [][Next]_vars

---------------------------------------------------------------------------
(* State functions the properties are stated with.                         *)

Slots == 0..(conf.bucket_num - 1)

\* the records of slot b's chain (none when the slot holds no chain)
ItemsOf(bs, b) == IF bs[b].kind = "que" THEN bs[b].items ELSE <<>>

\* key is stored: some chain holds a pair with that key
StoredKey(bs, key) ==
    \E b \in Slots : \E j \in 1..Len(ItemsOf(bs, b)) : ItemsOf(bs, b)[j].key = key

\* the values stored under key, over all chains
ValuesOf(bs, key) ==
    UNION {{ItemsOf(bs, b)[j].value :
               j \in {n \in 1..Len(ItemsOf(bs, b)) : ItemsOf(bs, b)[n].key = key}} :
           b \in Slots}

\* the keys of slot b's chain, in chain order
RECURSIVE KeysOfItems(_)
KeysOfItems(items) ==
    IF items = <<>> THEN <<>>
    ELSE <<items[1].key>> \o KeysOfItems(Tail(items))

\* the sum of the sizes of all chains
RECURSIVE SumChains(_, _)
SumChains(bs, b) ==
    IF b >= conf.bucket_num THEN 0
    ELSE Len(ItemsOf(bs, b)) + SumChains(bs, b + 1)
StoredPairs(bs) == SumChains(bs, 0)

NoWild(bs) == \A b \in Slots : bs[b].kind # "wild"

ViewOf(val) == [kind |-> "view", size |-> Len(val), bytes |-> val]

\* what bkvs_get(key) can return in the table state (bs, pn, sc): its result
\* code and the view it hands back
GetOutcomes(bs, pn, sc, key) ==
    {[res |-> g.res, buff |-> g.buff] :
        g \in {bkvs_get(conf, bs, pn, sc, key, ubs) :
                 ubs \in IF bs[Route(key)].kind = "wild" THEN {"miss", "hit"}
                         ELSE {"miss"}}}
\* what bkvs_has(key) can return
HasOutcomes(bs, pn, sc, key) ==
    {bkvs_has(conf, bs, pn, sc, key, ubs).res :
        ubs \in IF bs[Route(key)].kind = "wild" THEN {"miss", "hit"} ELSE {"miss"}}

Found(val) == [res |-> BKVS_OK, buff |-> ViewOf(val)]
NotFound == [res |-> BKVS_ERR_NO_KEY, buff |-> NoOut]

-----
(* C1.  Round trip: a bkvs_put(K, V) that returns BKVS_OK, immediately      *)
(* followed by bkvs_get(K), makes the get return BKVS_OK with a view of     *)
(* size Len(V) and bytes V.                                                 *)

C1_RoundTrip ==
    [][(op = "put" /\ ret = BKVS_OK /\ op' = "get" /\ arg_key' = arg_key)
          => (ret' = BKVS_OK /\ out' = ViewOf(arg_val))]_vars

\* the same, for a key whose slot holds NULL or a chain
C1_RoundTripNoWildSlot ==
    [][(op = "put" /\ ret = BKVS_OK /\ op' = "get" /\ arg_key' = arg_key
        /\ buckets[Route(arg_key)].kind # "wild")
          => (ret' = BKVS_OK /\ out' = ViewOf(arg_val))]_vars

---------------------------------------------------------------------------
(* C2.  Update overwrite: a bkvs_put(K, V2) that returns BKVS_OK while K is *)
(* stored makes bkvs_get(K) yield V2, leaves every chain's sequence of keys *)
(* (so K's key and position) and every other pair as they were, and leaves  *)
(* the pair count as it was; and a put that changes the pair count is a put *)
(* of a key that was not stored.                                            *)

C2_UpdateOverwrite ==
    [][/\ (op' = "put" /\ ret' = BKVS_OK /\ StoredKey(buckets, arg_key'))
            => /\ GetOutcomes(buckets', pair_num', search_ctx', arg_key')
                    = {Found(arg_val')}
               /\ \A b \in Slots :
                     /\ buckets'[b].kind = buckets[b].kind
                     /\ KeysOfItems(ItemsOf(buckets', b))
                           = KeysOfItems(ItemsOf(buckets, b))
                     /\ \A j \in 1..Len(ItemsOf(buckets, b)) :
                           ItemsOf(buckets, b)[j].key # arg_key'
                              => ItemsOf(buckets', b)[j] = ItemsOf(buckets, b)[j]
               /\ pair_num' = pair_num
       /\ (op' = "put" /\ pair_num' # pair_num) => ~StoredKey(buckets, arg_key')
      ]_vars

\* an update has happened: the put's key is first in a chain of two, where an
\* insert would have put it last
C2_Witness ==
    /\ op = "put" /\ ret = BKVS_OK
    /\ \E b \in Slots :
          /\ Len(ItemsOf(buckets, b)) = 2
          /\ ItemsOf(buckets, b)[1].key = arg_key
          /\ ItemsOf(buckets, b)[1].value = arg_val
          /\ ItemsOf(buckets, b)[2].value # arg_val

---------------------------------------------------------------------------
(* C3.  Deletion: bkvs_drop(K) while K is stored returns BKVS_OK; after it  *)
(* bkvs_get(K) and bkvs_has(K) return BKVS_ERR_NO_KEY and the pair count is *)
(* one less than before.                                                    *)

C3_Deletion ==
    [][(op' = "drop" /\ StoredKey(buckets, arg_key'))
          => /\ ret' = BKVS_OK
             /\ GetOutcomes(buckets', pair_num', search_ctx', arg_key') = {NotFound}
             /\ HasOutcomes(buckets', pair_num', search_ctx', arg_key')
                   = {BKVS_ERR_NO_KEY}
             /\ pair_num # u32(0)
             /\ pair_num' = u32_sub(pair_num, u32(1))
      ]_vars

\* the same, while the pair count agrees with the chains
C3_DeletionCounted ==
    [][(op' = "drop" /\ StoredKey(buckets, arg_key')
        /\ pair_num = u32(StoredPairs(buckets)))
          => /\ ret' = BKVS_OK
             /\ GetOutcomes(buckets', pair_num', search_ctx', arg_key') = {NotFound}
             /\ HasOutcomes(buckets', pair_num', search_ctx', arg_key')
                   = {BKVS_ERR_NO_KEY}
             /\ pair_num' = u32(StoredPairs(buckets'))
             /\ StoredPairs(buckets') = StoredPairs(buckets) - 1
      ]_vars

---------------------------------------------------------------------------
(* C4.  The pair count equals the sum of the sizes of all chains in every   *)
(* reachable state.  Stated on bkvs_empty: called in a state where the two  *)
(* agree (and no slot is wild), it leaves a state where they agree.         *)

C4_CountAfterEmpty ==
    [][(op' = "empty" /\ NoWild(buckets) /\ pair_num = u32(StoredPairs(buckets)))
          => pair_num' = u32(StoredPairs(buckets'))]_vars

\* the pair count equals the sum of the sizes of all chains, in every state
C4_CountInvariant == Usable => pair_num = u32(StoredPairs(buckets))

\* put and drop keep the pair count and the chains in step where the slot
\* used is NULL or a chain
C4_CountStep ==
    [][(op' \in {"put", "drop"} /\ buckets[Route(arg_key')].kind # "wild"
        /\ pair_num = u32(StoredPairs(buckets)))
          => pair_num' = u32(StoredPairs(buckets'))]_vars

---------------------------------------------------------------------------
(* C5.  bkvs_empty leaves every slot empty and the pair count 0, so that    *)
(* every key is absent and bkvs_status reports 0; a put that succeeds right *)
(* after it leaves the pair count at 1.                                     *)

C5_EmptyResets ==
    [][/\ (op' = "empty" /\ NoWild(buckets) /\ pair_num = u32(StoredPairs(buckets)))
            => /\ \A b \in Slots : buckets'[b] = NullBucket
               /\ \A k \in Keys :
                     GetOutcomes(buckets', pair_num', search_ctx', k) = {NotFound}
               /\ pair_num' = u32(0)
       /\ (op = "empty" /\ op' = "put" /\ ret' = BKVS_OK) => pair_num' = u32(1)
      ]_vars

\* what bkvs_empty does do: every slot is NULL and every key absent after it
C5_EmptyClearsSlots ==
    [][op' = "empty"
          => /\ \A b \in Slots : buckets'[b] = NullBucket
             /\ \A k \in Keys :
                   GetOutcomes(buckets', pair_num', search_ctx', k) = {NotFound}
             /\ pair_num' = pair_num]_vars

---------------------------------------------------------------------------
(* C6.  bkvs_drop(K) while K is not stored returns BKVS_ERR_NO_KEY and      *)
(* leaves every chain and the pair count as they were.                      *)

C6_DropMissing ==
    [][(op' = "drop" /\ ~StoredKey(buckets, arg_key'))
          => /\ ret' = BKVS_ERR_NO_KEY
             /\ buckets' = buckets
             /\ pair_num' = pair_num]_vars

\* the same, for a key whose slot holds NULL or a chain
C6_DropMissingNoWildSlot ==
    [][(op' = "drop" /\ ~StoredKey(buckets, arg_key')
        /\ buckets[Route(arg_key')].kind # "wild")
          => /\ ret' = BKVS_ERR_NO_KEY
             /\ buckets' = buckets
             /\ pair_num' = pair_num]_vars

---------------------------------------------------------------------------
(* C7.  Collision independence: a key put with BKVS_OK is retrievable with  *)
(* its value, and a put or a drop of K1 changes neither whether another key *)
(* K2 of the same slot is stored nor what bkvs_get(K2) returns.             *)

C7_CollisionIndependence ==
    [][/\ (op' = "put" /\ ret' = BKVS_OK)
            => GetOutcomes(buckets', pair_num', search_ctx', arg_key')
                  = {Found(arg_val')}
       /\ \A k2 \in Keys :
             (op' \in {"put", "drop"} /\ k2 # arg_key' /\ Route(k2) = Route(arg_key'))
                => /\ StoredKey(buckets', k2) = StoredKey(buckets, k2)
                   /\ GetOutcomes(buckets', pair_num', search_ctx', k2)
                         = GetOutcomes(buckets, pair_num, search_ctx, k2)
      ]_vars

\* the same, for keys whose slot holds NULL or a chain
C7_CollisionIndependenceNoWildSlot ==
    [][(op' \in {"put", "drop"} /\ buckets[Route(arg_key')].kind # "wild")
        => /\ (op' = "put" /\ ret' = BKVS_OK)
                => GetOutcomes(buckets', pair_num', search_ctx', arg_key')
                      = {Found(arg_val')}
           /\ \A k2 \in Keys :
                 (op' \in {"put", "drop"} /\ k2 # arg_key'
                  /\ Route(k2) = Route(arg_key'))
                    => /\ StoredKey(buckets', k2) = StoredKey(buckets, k2)
                       /\ GetOutcomes(buckets', pair_num', search_ctx', k2)
                             = GetOutcomes(buckets, pair_num, search_ctx, k2)
      ]_vars

---------------------------------------------------------------------------
(* C8.  bkvs_foreach with a visitor that never signals stop returns BKVS_OK *)
(* and has visited exactly the stored pairs, slot by slot in ascending slot *)
(* order and within a slot in chain order; a chain's order is insertion     *)
(* order: a put of a new key appends it, a drop removes the key and keeps   *)
(* the order of the rest.                                                   *)

PairOfVisit(v) == [key |-> v.key, value |-> v.value, value_size |-> v.size]
PairOfItem(p) == [key |-> p.key, value |-> p.value, value_size |-> p.value_size]

\* the stored pairs from slot b on, in slot order and chain order
RECURSIVE FlatPairs(_, _)
FlatPairs(bs, b) ==
    IF b >= conf.bucket_num THEN <<>>
    ELSE [j \in 1..Len(ItemsOf(bs, b)) |-> PairOfItem(ItemsOf(bs, b)[j])]
            \o FlatPairs(bs, b + 1)

ForeachVisits ==
    (op' = "foreach" /\ ret' # BKVS_ERR_ITER_STOP)
       => /\ ret' = BKVS_OK
          /\ [i \in 1..Len(visits') |-> PairOfVisit(visits'[i])]
                = FlatPairs(buckets, 0)

ChainOrder ==
    /\ (op' = "put" /\ ret' = BKVS_OK /\ ~StoredKey(buckets, arg_key'))
          => KeysOfItems(ItemsOf(buckets', Route(arg_key')))
                = Append(KeysOfItems(ItemsOf(buckets, Route(arg_key'))), arg_key')
    /\ (op' = "drop" /\ ret' = BKVS_OK)
          => \A b \in Slots :
                LET Other(k) == k # arg_key'
                IN KeysOfItems(ItemsOf(buckets', b))
                      = SelectSeq(KeysOfItems(ItemsOf(buckets, b)), Other)

C8_ForeachOrder == [][ForeachVisits]_vars

\* the same, and the chain order, in a table none of whose slots is wild
C8_ForeachOrderNoWildSlot == [][NoWild(buckets) => (ForeachVisits /\ ChainOrder)]_vars

---------------------------------------------------------------------------
(* C9.  During a bkvs_foreach over a table whose slots are NULL or chains,  *)
(* the i-th invocation (from 0) gets index i and, as the total, the number  *)
(* of pairs stored; an iteration that ran to completion made its last       *)
(* invocation with index total - 1.                                         *)

ForeachIndexTotal ==
    op' = "foreach"
       => /\ \A i \in 1..Len(visits') :
                /\ visits'[i].idx = u32(i - 1)
                /\ visits'[i].num = u32(StoredPairs(buckets))
          /\ (ret' = BKVS_OK /\ visits' # <<>>)
                => visits'[Len(visits')].idx = u32(StoredPairs(buckets) - 1)

C9_ForeachIndexTotal == [][NoWild(buckets) => ForeachIndexTotal]_vars

\* the same, while the pair count agrees with the chains
C9_ForeachIndexTotalCounted ==
    [][(NoWild(buckets) /\ pair_num = u32(StoredPairs(buckets)))
          => ForeachIndexTotal]_vars

\* the index part alone, in any table
C9_ForeachIndex ==
    [][op' = "foreach"
          => \A i \in 1..Len(visits') : visits'[i].idx = u32(i - 1)]_vars

---------------------------------------------------------------------------
(* C10.  Early stop: when the visitor returns BKVS_ERR_ITER_STOP on its     *)
(* k-th invocation, bkvs_foreach returns BKVS_ERR_ITER_STOP having made     *)
(* exactly k invocations, and every slot and the pair count are as before.  *)

C10_EarlyStop ==
    [][(op' = "foreach" /\ arg_cb'.stop_at \in 1..Len(visits'))
          => /\ Len(visits') = arg_cb'.stop_at
             /\ ret' = BKVS_ERR_ITER_STOP
             /\ buckets' = buckets
             /\ pair_num' = pair_num]_vars

\* a visitor stopped on the first of two stored pairs
C10_Witness ==
    /\ op = "foreach" /\ ret = BKVS_ERR_ITER_STOP
    /\ arg_cb.stop_at = 1 /\ Len(visits) = 1 /\ ~visits[1].garbage
    /\ NoWild(buckets) /\ StoredPairs(buckets) = 2

---------------------------------------------------------------------------
(* C11.  Put is atomic under allocation failure: a bkvs_put that returns    *)
(* BKVS_ERR_NO_MEM leaves every key's presence and stored value, the pair   *)
(* count, and the sequence of pairs a bkvs_foreach walks as they were: the  *)
(* slots are the same, or differ in nothing of these.                       *)

C11_PutAtomic ==
    [][(op' = "put" /\ ret' = BKVS_ERR_NO_MEM)
          => /\ pair_num' = pair_num
             /\ \/ buckets' = buckets
                \/ /\ \A k \in Keys :
                         /\ StoredKey(buckets', k) = StoredKey(buckets, k)
                         /\ ValuesOf(buckets', k) = ValuesOf(buckets, k)
                   /\ FlatPairs(buckets', 0) = FlatPairs(buckets, 0)
                   /\ \A b \in Slots :
                         (buckets'[b].kind = "wild") = (buckets[b].kind = "wild")
      ]_vars

\* what a bkvs_foreach with a visitor that never stops can return and visit;
\* the iteration reads the slots and the count and nothing else
ForeachOutcomes(bs, pn) ==
    {[res |-> f.res, visits |-> f.visits] :
        f \in {bkvs_foreach(conf, bs, pn, search_ctx, NoVisitor, ubi) :
                 ubi \in IF NoWild(bs) THEN {NoWildIter}
                         ELSE {u \in WildIter : u.status # "crash"}}}

\* the same through the calls: what bkvs_get (whose result code is
\* bkvs_has's) and bkvs_foreach can return is as it was
C11_PutAtomicObserved ==
    [][(op' = "put" /\ ret' = BKVS_ERR_NO_MEM)
          => /\ \A k \in Keys :
                   GetOutcomes(buckets', pair_num', search_ctx', k)
                      = GetOutcomes(buckets, pair_num, search_ctx, k)
             /\ buckets' # buckets
                   => ForeachOutcomes(buckets', pair_num')
                         = ForeachOutcomes(buckets, pair_num)
      ]_vars

\* the replacement value of a stored key could not be allocated: the key
\* still has the other value
C11_Witness ==
    /\ op = "put" /\ ret = BKVS_ERR_NO_MEM
    /\ StoredKey(buckets, arg_key)
    /\ ValuesOf(buckets, arg_key) # {arg_val}
    /\ StoredPairs(buckets) = 2

---------------------------------------------------------------------------
(* C14.  No pair allocation leaks: after a bkvs_put, whatever it returned,  *)
(* every key buffer and value buffer the call allocated is owned by a       *)
(* stored pair or was released, so none is left without an owner.           *)

C14_NoLeak == (op = "put") => unowned = 0

\* what does hold: only a put whose append failed leaves buffers behind
C14_LeakOnlyOnAppendFailure ==
    [][unowned' # 0 => (op' = "put" /\ ret' \in {BKVS_ERR_NO_MEM, BKVS_ERR}
                         /\ ~StoredKey(buckets', arg_key'))]_vars

---------------------------------------------------------------------------
(* C15.  Slots start empty: right after a bkvs_new that returned BKVS_OK,   *)
(* whatever the allocated memory held, bkvs_has, bkvs_get and bkvs_drop of  *)
(* any key return BKVS_ERR_NO_KEY and bkvs_foreach visits nothing and       *)
(* returns BKVS_OK.                                                         *)

C15_SlotsStartEmpty ==
    [][(op = "new" /\ ret = BKVS_OK /\ ctx_live)
          => /\ op' \in {"has", "get", "drop"} => ret' = BKVS_ERR_NO_KEY
             /\ op' = "foreach" => (ret' = BKVS_OK /\ visits' = <<>>)
      ]_vars

\* the same, and no call ends the process, where the memory malloc returned
\* for the slots was all zero
C15_SlotsStartEmptyZeroed ==
    [][(op = "new" /\ ret = BKVS_OK /\ ctx_live /\ NoWild(buckets))
          => /\ op' \in {"has", "get", "drop"} => ret' = BKVS_ERR_NO_KEY
             /\ op' = "foreach" => (ret' = BKVS_OK /\ visits' = <<>>)
             /\ op' # "crash"
      ]_vars

\* a slot comes to hold a chain only by a put of a key that routes to it
C15_ChainOnlyByPut ==
    [][\A b \in Slots :
          (buckets'[b].kind = "que" /\ buckets[b].kind # "que")
             => (op' = "put" /\ Route(arg_key') = b /\ buckets[b].kind = "null")
      ]_vars

---------------------------------------------------------------------------
(* C16.  Key uniqueness and placement: in every state each key is the key   *)
(* of at most one stored pair, each stored pair is in the chain of slot     *)
(* hash(key) mod bucket_num, and a lookup (bkvs_has, bkvs_get) finds a key  *)
(* exactly when it is stored.                                               *)

Placement(bs) ==
    \A b \in Slots : \A j \in 1..Len(ItemsOf(bs, b)) :
       /\ Route(ItemsOf(bs, b)[j].key) = b
       /\ \A b2 \in Slots : \A j2 \in 1..Len(ItemsOf(bs, b2)) :
             ItemsOf(bs, b2)[j2].key = ItemsOf(bs, b)[j].key
                => (b2 = b /\ j2 = j)

ScanFindsStored ==
    op' \in {"has", "get"} => (ret' = BKVS_OK <=> StoredKey(buckets, arg_key'))

C16_KeyPlacement == [][Placement(buckets') /\ ScanFindsStored]_vars

\* uniqueness and placement alone, in every state
C16_Placement == Usable => Placement(buckets)

\* the lookup part, for a key whose slot holds NULL or a chain
C16_ScanNoWildSlot ==
    [][(op' \in {"has", "get"} /\ buckets[Route(arg_key')].kind # "wild")
          => (ret' = BKVS_OK <=> StoredKey(buckets, arg_key'))]_vars

---------------------------------------------------------------------------
(* Two callers.  search_ctx is one file-scope object, so a second caller    *)
(* working on a second table writes the same object.  The first caller's    *)
(* put, drop and get are taken in their two halves, the lookup (search_key) *)
(* and the use of what search_ctx then holds; the second caller's calls on  *)
(* its own table (other) come between them.  Each table is used by one      *)
(* caller at a time; the slots of both tables start NULL.                   *)

\* the keys and values the two callers use
SharedKeys == {<<97, 0>>, <<97, 98, 0>>}
OtherValues == {<<7>>}

\* a pointer to a record of the second caller's table
OtherPtr(b, i) == [kind |-> "other", b |-> b, i |-> i]

\* search_ctx as the second caller's code sees it: the records of its own
\* table are the ones it reaches by "rec"
Swap(sc) ==
    [sc EXCEPT !.buff = CASE sc.buff.kind = "rec" -> OtherPtr(sc.buff.b, sc.buff.i)
                          [] sc.buff.kind = "other" -> RecPtr(sc.buff.b, sc.buff.i)
                          [] OTHER -> sc.buff]

LookupOps == {"put_lookup", "drop_lookup", "get_lookup"}

\* what a call returns in the two-table state
Result2(res, bs, pn, oth, o, un, crash) ==
    [res |-> res, buckets |-> bs, pair_num |-> pn, other |-> oth, out |-> o,
     unowned |-> un, crash |-> crash]

\* bkvs_put after its search_key returned res, with search_ctx as it is now
bkvs_put_use(cf, bs, pn, oth, sc, res, key, buff, size) ==
    IF res = BKVS_ERR_NO_KEY
    THEN LET bucket_idx == u32_mod(hash_cb(cf.hash_cb, key), cf.bucket_num)
             q == IF bs[bucket_idx].kind = "null" THEN create_pair_que("none")
                  ELSE [res |-> BKVS_OK, que |-> bs[bucket_idx]]
             p == create_pair(key, buff, size, "none")
             e == bque_enqueue(q.que, p.pair, "none", "ok")
         IN Result2(BKVS_OK, [bs EXCEPT ![bucket_idx] = e.que],
                    u32_add(pn, u32(1)), oth, NoOut, 0, FALSE)
    ELSE IF res = BKVS_OK
    THEN LET ptr == sc.buff
         IN IF ptr.kind = "other"
            THEN LET upd == update_value(Deref(oth.buckets, ptr), buff, size)
                 IN Result2(BKVS_OK, bs, pn,
                            [oth EXCEPT !.buckets[ptr.b] =
                                Chain([oth.buckets[ptr.b].items
                                          EXCEPT ![ptr.i + 1] = upd])],
                            NoOut, 0, FALSE)
            ELSE LET upd == update_value(Deref(bs, ptr), buff, size)
                 IN Result2(BKVS_OK,
                            [bs EXCEPT ![ptr.b] =
                                Chain([bs[ptr.b].items EXCEPT ![ptr.i + 1] = upd])],
                            pn, oth, NoOut, 0, FALSE)
    ELSE Result2(res, bs, pn, oth, NoOut, 0, FALSE)

\* bkvs_drop after its search_key returned res: the pair search_ctx.buff
\* points to has its key and value freed, then the record at
\* search_ctx.pair_idx of slot search_ctx.bucket_idx of the caller's table is
\* removed; nullq is what bque_drop does when that slot holds NULL
bkvs_drop_use(cf, bs, pn, oth, sc, res, nullq) ==
    IF res # BKVS_OK THEN Result2(res, bs, pn, oth, NoOut, 0, FALSE)
    ELSE LET ptr == sc.buff
             oth1 == IF ptr.kind = "other"
                     THEN [oth EXCEPT !.freed = @ \cup {<<ptr.b, ptr.i>>}]
                     ELSE oth
             d == bque_drop(bs[sc.bucket_idx], sc.pair_idx, "ok")
         IN IF bs[sc.bucket_idx].kind = "null" /\ nullq = "crash"
            THEN Result2(BKVS_ERR, bs, pn, oth1, NoOut, 0, TRUE)
            ELSE IF d.res # BQUE_OK
            THEN Result2(BKVS_ERR, bs, pn, oth1, NoOut, 0, FALSE)
            ELSE \* a record removed that is not the pair freed keeps its buffers
                 Result2(BKVS_OK, [bs EXCEPT ![sc.bucket_idx] = d.que],
                         u32_sub(pn, u32(1)), oth1, NoOut,
                         IF ptr.kind = "other" THEN 2 ELSE 0, FALSE)

\* bkvs_get after its search_key returned res
bkvs_get_use(cf, bs, pn, oth, sc, res) ==
    IF res # BKVS_OK THEN Result2(res, bs, pn, oth, NoOut, 0, FALSE)
    ELSE LET ptr == sc.buff
             pair == IF ptr.kind = "other" THEN Deref(oth.buckets, ptr)
                     ELSE Deref(bs, ptr)
         IN Result2(BKVS_OK, bs, pn, oth, View(pair), 0, FALSE)

InitShared ==
    LET zeroed == [i \in 0..(ConfArg.bucket_num - 1) |-> NullBucket]
        n == bkvs_new(ConfArg, FALSE, zeroed)
    IN /\ conf = n.conf
       /\ buckets = n.buckets
       /\ pair_num = n.pair_num
       /\ other = [buckets |-> zeroed, pair_num |-> u32(0), freed |-> {}]
       /\ search_ctx = ZeroSearchCtx
       /\ ctx_live = TRUE
       /\ alive = TRUE
       /\ op = "new"
       /\ arg_key = NoKey
       /\ arg_val = NoVal
       /\ arg_cb = NoVisitor
       /\ ret = BKVS_OK
       /\ out = NoOut
       /\ visits = <<>>
       /\ unowned = 0
       /\ arg_conf = ConfArg

\* the first caller enters bkvs_put, bkvs_drop or bkvs_get: search_key
Lookup ==
    /\ Usable
    /\ op \notin LookupOps
    /\ \E name \in LookupOps, key \in SharedKeys, buff \in Values :
          /\ name # "put_lookup" => buff = <<1>>
          /\ name = "put_lookup"
                => (pair_num.hi = 0 /\ pair_num.lo < MaxPairNum) \/ Stored(key)
          /\ LET s == search_key(conf, buckets, search_ctx, key, "miss")
             IN /\ search_ctx' = s.sctx
                /\ ret' = s.res
          /\ op' = name
          /\ arg_key' = key
          /\ arg_val' = IF name = "put_lookup" THEN buff ELSE NoVal
          /\ out' = NoOut
          /\ unowned' = 0
          /\ UNCHANGED <<conf, buckets, pair_num, ctx_live, alive, arg_cb, visits,
                         arg_conf, other>>

\* the first caller's call goes on from its lookup and returns
Use ==
    /\ Usable
    /\ op \in LookupOps
    /\ \E nullq \in {"err", "crash"} :
          LET r == CASE op = "put_lookup" ->
                          bkvs_put_use(conf, buckets, pair_num, other, search_ctx,
                                       ret, arg_key, arg_val, Len(arg_val))
                     [] op = "drop_lookup" ->
                          bkvs_drop_use(conf, buckets, pair_num, other, search_ctx,
                                        ret, nullq)
                     [] OTHER ->
                          bkvs_get_use(conf, buckets, pair_num, other, search_ctx, ret)
          IN /\ buckets' = r.buckets
             /\ pair_num' = r.pair_num
             /\ other' = r.other
             /\ ret' = r.res
             /\ out' = r.out
             /\ unowned' = r.unowned
             /\ alive' = ~r.crash
             /\ op' = CASE op = "put_lookup" -> "put"
                        [] op = "drop_lookup" -> "drop"
                        [] OTHER -> "get"
             /\ UNCHANGED <<conf, search_ctx, ctx_live, arg_key, arg_val, arg_cb,
                            visits, arg_conf>>

\* the second caller's bkvs_put on its table
OtherPut ==
    /\ Usable
    /\ \E key \in SharedKeys, buff \in OtherValues :
          /\ \/ (other.pair_num.hi = 0 /\ other.pair_num.lo < MaxPairNum)
             \/ StoredKey(other.buckets, key)
          /\ LET r == bkvs_put(conf, other.buckets, other.pair_num, Swap(search_ctx),
                               key, buff, Len(buff), "none", "miss", "ok")
             IN /\ other' = [other EXCEPT !.buckets = r.buckets,
                                          !.pair_num = r.pair_num]
                /\ search_ctx' = Swap(r.sctx)
    /\ UNCHANGED <<conf, buckets, pair_num, ctx_live, alive, op, arg_key, arg_val,
                   ret, arg_cb, out, visits, unowned, arg_conf>>

\* the second caller's bkvs_get on its table
OtherGet ==
    /\ Usable
    /\ \E key \in SharedKeys :
          LET r == bkvs_get(conf, other.buckets, other.pair_num, Swap(search_ctx),
                            key, "miss")
          IN search_ctx' = Swap(r.sctx)
    /\ UNCHANGED <<conf, buckets, pair_num, ctx_live, alive, op, arg_key, arg_val,
                   ret, arg_cb, out, visits, unowned, arg_conf, other>>

\* a later use of freed buffers, by either caller, may end the process
UseAfterFree ==
    /\ Usable
    /\ other.freed # {}
    /\ alive' = FALSE
    /\ op' = "crash"
    /\ UNCHANGED <<conf, buckets, pair_num, search_ctx, ctx_live, arg_key, arg_val,
                   ret, arg_cb, out, visits, unowned, arg_conf, other>>

NextShared == Lookup \/ Use \/ OtherPut \/ OtherGet \/ UseAfterFree

SpecShared == InitShared /\ [][NextShared]_vars

---------------------------------------------------------------------------
(* C12.  The match a call acts on is its own: when the first caller's put,  *)
(* drop or get goes on from a lookup that found its key, the bucket index,  *)
(* chain position and pair it uses are the ones its own lookup found in its *)
(* own table for its own key, whatever the second caller did in between.    *)

\* what the call's own search_key found
OwnMatch == search_key(conf, buckets, ZeroSearchCtx, arg_key, "miss").sctx

C12_OwnMatch ==
    [][(op \in LookupOps /\ ret = BKVS_OK /\ op' \in {"put", "drop", "get"})
          => /\ search_ctx.buff = OwnMatch.buff
             /\ search_ctx.pair_idx = OwnMatch.pair_idx
             /\ search_ctx.bucket_idx = OwnMatch.bucket_idx
      ]_vars

\* what does hold: where search_ctx still holds the call's key and a record
\* of the call's table, the match used is the call's own
C12_OwnMatchUninterrupted ==
    [][(op \in LookupOps /\ ret = BKVS_OK /\ op' \in {"put", "drop", "get"}
        /\ search_ctx.key = arg_key /\ search_ctx.buff.kind = "rec")
          => /\ search_ctx.buff = OwnMatch.buff
             /\ search_ctx.pair_idx = OwnMatch.pair_idx
             /\ search_ctx.bucket_idx = OwnMatch.bucket_idx
      ]_vars

---------------------------------------------------------------------------
(* C13.  Drop is all-or-nothing: a bkvs_drop that returns BKVS_ERR because  *)
(* the chain's removal failed has freed nothing and changed nothing: the    *)
(* slots, the pair count and every stored pair's buffers are as before.     *)

C13_DropAllOrNothing ==
    [][(op' = "drop" /\ ret' = BKVS_ERR)
          => (buckets' = buckets /\ pair_num' = pair_num /\ other' = other)]_vars

\* with one caller and a key whose slot holds NULL or a chain, the removal
\* does not fail: bkvs_drop never returns BKVS_ERR
C13_DropOwnMatchNeverFails ==
    [][(op' = "drop" /\ buckets[Route(arg_key')].kind # "wild")
          => ret' # BKVS_ERR]_vars

---------------------------------------------------------------------------
(* Configurations.  bkvs_new is given any of a set of configurations, or    *)
(* none; the table is then used with every allocation succeeding, and the   *)
(* two built-in hash functions are called on their own.  The memory the     *)
(* slots are in was zero.                                                   *)

ConfArgs ==
    {[is_null |-> TRUE, hash_cb |-> "NULL", bucket_num |-> 0, pair_num_max |-> 0]}
    \cup [is_null : {FALSE}, hash_cb : {"NULL", "sdbm"}, bucket_num : {0, 1, 3},
          pair_num_max : {0, 1}]

\* the string "hello", whose hashes pass 2^32 on the way
Hello == <<104, 101, 108, 108, 111, 0>>
HashInputs == Keys \cup {<<0>>, Hello}

\* the value stored
ConfValues == {<<1>>}

InitConf ==
    \E carg \in ConfArgs :
       LET size == bkvs_new(carg, FALSE, <<>>).conf.bucket_num
           n == bkvs_new(carg, FALSE, [i \in 0..(size - 1) |-> NullBucket])
       IN /\ conf = n.conf
          /\ buckets = n.buckets
          /\ pair_num = n.pair_num
          /\ arg_conf = carg
          /\ search_ctx = ZeroSearchCtx
          /\ ctx_live = TRUE
          /\ alive = TRUE
          /\ op = "new"
          /\ arg_key = NoKey
          /\ arg_val = NoVal
          /\ arg_cb = NoVisitor
          /\ ret = n.res
          /\ out = NoOut
          /\ visits = <<>>
          /\ unowned = 0
          /\ other = NoOther

\* a bkvs_put that is refused once the pair count has reached pair_num_max
ConfPutCapped ==
    /\ Usable
    /\ \E key \in Keys :
          /\ (pair_num.hi = 0 /\ pair_num.lo < MaxPairNum) \/ Stored(key)
          /\ \E buff \in ConfValues :
                LET r == IF ~Stored(key) /\ pair_num.lo >= conf.pair_num_max
                         THEN Result(BKVS_ERR, buckets, pair_num, search_ctx)
                         ELSE bkvs_put(conf, buckets, pair_num, search_ctx, key, buff,
                                       Len(buff), "none", "miss", "ok")
                IN /\ Return("put", key, buff, NoVisitor, r, NoOut, <<>>)
                   /\ ctx_live' = TRUE

\* bkvs_put, every allocation succeeding
ConfPut ==
    /\ Usable
    /\ \E key \in Keys :
          /\ (pair_num.hi = 0 /\ pair_num.lo < MaxPairNum) \/ Stored(key)
          /\ \E buff \in ConfValues :
                LET r == bkvs_put(conf, buckets, pair_num, search_ctx, key, buff,
                                  Len(buff), "none", "miss", "ok")
                IN /\ Return("put", key, buff, NoVisitor, r, NoOut, <<>>)
                   /\ ctx_live' = TRUE

ConfDrop ==
    /\ Usable
    /\ \E key \in Keys :
          LET r == bkvs_drop(conf, buckets, pair_num, search_ctx, key, "miss", "ok")
          IN /\ Return("drop", key, NoVal, NoVisitor, r, NoOut, <<>>)
             /\ ctx_live' = TRUE

ConfGet ==
    /\ Usable
    /\ \E key \in Keys :
          LET r == bkvs_get(conf, buckets, pair_num, search_ctx, key, "miss")
          IN /\ Return("get", key, NoVal, NoVisitor, r, r.buff, <<>>)
             /\ ctx_live' = TRUE

\* a call of bkvs_hash_cb_djb2 or bkvs_hash_cb_sdbm on a string
HashCall ==
    /\ Usable
    /\ \E name \in {"djb2", "sdbm"}, str \in HashInputs :
          /\ op' = IF name = "djb2" THEN "hash_djb2" ELSE "hash_sdbm"
          /\ arg_key' = str
          /\ out' = [kind |-> "hash", size |-> hash_cb(name, str), bytes |-> <<>>]
          /\ ret' = BKVS_OK
          /\ arg_val' = NoVal
          /\ arg_cb' = NoVisitor
          /\ visits' = <<>>
          /\ unowned' = 0
          /\ UNCHANGED <<conf, buckets, pair_num, search_ctx, ctx_live, alive,
                         arg_conf, other>>

NextConf == ConfPut \/ ConfDrop \/ ConfGet \/ HashCall

SpecConf == InitConf /\ [][NextConf]_vars

---------------------------------------------------------------------------
(* C17.  Bucket routing is in range: whatever configuration bkvs_new was    *)
(* given, in every state the bucket count is at least 1 and is the          *)
(* configured one, or 128 where there is no configuration or it says 0; the *)
(* hash function is the configured one, or djb2 where there is none; with   *)
(* no configuration the pair cap is 1024; there are bucket count slots; and *)
(* every key's index, hash(key) mod bucket count, is below the bucket count *)
(* and is the slot that holds the key's pair.                               *)

C17_Configuration ==
    /\ conf.bucket_num >= 1
    /\ conf.bucket_num = IF arg_conf.is_null \/ arg_conf.bucket_num = 0 THEN 128
                         ELSE arg_conf.bucket_num
    /\ conf.hash_cb = IF arg_conf.is_null \/ arg_conf.hash_cb = "NULL" THEN "djb2"
                      ELSE arg_conf.hash_cb
    /\ conf.pair_num_max = IF arg_conf.is_null THEN 1024 ELSE arg_conf.pair_num_max
    /\ DOMAIN buckets = 0..(conf.bucket_num - 1)
    /\ \A key \in Keys : Route(key) \in 0..(conf.bucket_num - 1)
    /\ Placement(buckets)

\* a table configured with bucket count 0 and no hash function holds a pair
C17_Witness ==
    /\ op = "put" /\ ret = BKVS_OK
    /\ ~arg_conf.is_null /\ arg_conf.bucket_num = 0 /\ arg_conf.hash_cb = "NULL"
    /\ conf.bucket_num = 128 /\ conf.hash_cb = "djb2"
    /\ buckets[Route(arg_key)].kind = "que"

---------------------------------------------------------------------------
(* C18.  No capacity ceiling: with every allocation succeeding, a bkvs_put  *)
(* of a key that is not stored returns BKVS_OK and adds 1 to the pair       *)
(* count, whatever the pair count and the configured pair_num_max are.      *)

---------------------------------------------------------------------------
(* C19.  The built-in hash functions: for every string, bkvs_hash_cb_djb2   *)
(* is the fold hash = 5381, hash = (hash * 33 + c) mod 2^32 and             *)
(* bkvs_hash_cb_sdbm the fold hash = 0, hash = (c + (hash << 6) +           *)
(* (hash << 16) - hash) mod 2^32, over the string's bytes before the        *)
(* terminator; the result is a 32-bit unsigned value.                       *)

\* a * k mod 2^32, for a small k
u32_times(a, k) ==
    LET lo == a.lo * k
    IN [hi |-> (a.hi * k + (lo \div U16)) % U16, lo |-> lo % U16]

RECURSIVE FoldDjb2(_, _)
FoldDjb2(bytes, hash) ==
    IF bytes = <<>> THEN hash
    ELSE FoldDjb2(Tail(bytes), u32_add(u32_times(hash, 33), u32(Head(bytes))))

RECURSIVE FoldSdbm(_, _)
FoldSdbm(bytes, hash) ==
    IF bytes = <<>> THEN hash
    ELSE FoldSdbm(Tail(bytes),
                  u32_sub(u32_add(u32_add(u32(Head(bytes)), u32_times(hash, 64)),
                                  [hi |-> hash.lo, lo |-> 0]),
                          hash))

\* the bytes of a string before its terminator
BytesBefore(str) == SubSeq(str, 1, strlen(str))

HashIsFoldOver(bytes) ==
    /\ op' = "hash_djb2" => out'.size = FoldDjb2(bytes, u32(5381))
    /\ op' = "hash_sdbm" => out'.size = FoldSdbm(bytes, u32(0))

\* the fold over the bytes up to and including the terminator
C19_HashFoldWithTerminator ==
    [][op' \in {"hash_djb2", "hash_sdbm"}
          => HashIsFoldOver(SubSeq(arg_key', 1, strlen(arg_key') + 1))]_vars

C19_HashFold ==
    [][op' \in {"hash_djb2", "hash_sdbm"}
          => /\ HashIsFoldOver(BytesBefore(arg_key'))
             /\ out'.size.hi \in 0..(U16 - 1)
             /\ out'.size.lo \in 0..(U16 - 1)
             /\ (op' = "hash_djb2" /\ arg_key' = Hello)
                   => out'.size = [hi |-> 3986, lo |-> 12441]
             /\ (op' = "hash_sdbm" /\ arg_key' = Hello)
                   => out'.size = [hi |-> 10449, lo |-> 39218]
      ]_vars

\* djb2 of "hello" is 261238937 = 3986 * 2^16 + 12441
C19_Witness ==
    /\ op = "hash_djb2" /\ arg_key = Hello
    /\ out.size = [hi |-> 3986, lo |-> 12441]

---------------------------------------------------------------------------
(* Visitors of every kind.  The table is filled by bkvs_put, every          *)
(* allocation succeeding, and iterated with visitors that return any of the *)
(* result codes on the invocations on which they do not stop.               *)

VisitorCodes == {BKVS_OK, BKVS_ERR, BKVS_ERR_NO_MEM, BKVS_ERR_NO_KEY}
AnyCodeVisitors == [stop_at : 0..MaxPairNum, other : VisitorCodes]

VisitForeach ==
    /\ Usable
    /\ \E visitor \in AnyCodeVisitors,
          ubi \in (IF AnyWild THEN WildIter ELSE {NoWildIter}) :
          LET f == bkvs_foreach(conf, buckets, pair_num, search_ctx, visitor, ubi)
          IN /\ Return("foreach", NoKey, NoVal, visitor, f, NoOut, f.visits)
             /\ ctx_live' = ~f.crash

NextVisit == ConfPut \/ VisitForeach

SpecVisit == Init /\ [][NextVisit]_vars

---------------------------------------------------------------------------
(* C20.  Only the stop code halts iteration: a bkvs_foreach whose visitor   *)
(* did not return BKVS_ERR_ITER_STOP, whatever else it returned, has given  *)
(* each invocation the index one more than the one before, from 0, and      *)
(* returns BKVS_OK having visited every stored pair, or BKVS_ERR; it        *)
(* returns BKVS_ERR only where a slot holds what is no chain, whose status  *)
(* or item query failed, and BKVS_ERR_ITER_STOP only when the visitor       *)
(* returned it, on the last invocation made.                                *)

\* the visits to stored pairs, as pairs
RECURSIVE VisitedPairs(_)
VisitedPairs(vs) ==
    IF vs = <<>> THEN <<>>
    ELSE (IF vs[1].garbage THEN <<>> ELSE <<PairOfVisit(vs[1])>>)
            \o VisitedPairs(Tail(vs))

\* the visitor returned the stop code during the iteration
VisitorStopped(visitor, vs) == visitor.stop_at \in 1..Len(vs)

C20_OnlyStopHalts ==
    [][op' = "foreach"
          => /\ ret' \in {BKVS_OK, BKVS_ERR, BKVS_ERR_ITER_STOP}
             /\ \A i \in 1..Len(visits') : visits'[i].idx = u32(i - 1)
             /\ ret' = BKVS_ERR_ITER_STOP
                   <=> (VisitorStopped(arg_cb', visits')
                        /\ arg_cb'.stop_at = Len(visits'))
             /\ ret' = BKVS_OK => VisitedPairs(visits') = FlatPairs(buckets, 0)
             /\ ret' = BKVS_ERR => ~NoWild(buckets)
             /\ (NoWild(buckets) /\ ~VisitorStopped(arg_cb', visits'))
                   => ret' = BKVS_OK
      ]_vars

\* a visitor that returned BKVS_ERR_NO_MEM each time was called for both of
\* two stored pairs
C20_Witness ==
    /\ op = "foreach" /\ ret = BKVS_OK
    /\ arg_cb.stop_at = 0 /\ arg_cb.other = BKVS_ERR_NO_MEM
    /\ NoWild(buckets) /\ StoredPairs(buckets) = 2
    /\ Len(visits) = 2 /\ visits[2].idx = u32(1)

====
